------------------------------ MODULE Spec2Model ------------------------------
(***************************************************************************)
(* The collection pipeline of Idea Verify: the three source collectors     *)
(* (Reddit, GitHub, Twitter), their classifiers and tag extractors, and    *)
(* the ingestion coordinator collect_data with its request-scoped          *)
(* database session over the demands table; and the bookmark handlers      *)
(* over the user_bookmarks table.                                          *)
(*                                                                         *)
(* Text is modelled by the phrases it contains: a text is a set of         *)
(* phrases, and "kw in text" is substring search of kw in one of them      *)
(* after lowercasing.                                                      *)
(***************************************************************************)
EXTENDS Integers, Sequences, FiniteSets, Bags, TLC

None == "None"

---------------------------------------------------------------------------
(* Bounds of the model *)

\* concurrent or successive collection requests
NumRuns == 2
\* raw items the source platforms hold for one collector invocation
MaxFetch == 2
\* distinct posts / issues / tweets per platform
MaxItemId == 2
\* largest request limit explored (the schema admits up to 200)
MaxLimit == 5
\* phrases in the text of an item parsed on its own
MaxPhrases == 2
\* labels of an issue, @-mentions of a tweet
MaxLabels == 2
\* largest engagement counter of an item parsed on its own
MaxCount == 3
\* raw items in the batch of a collector invoked on its own
MaxBatch == 3
\* concurrent or successive bookmark requests
NumRequests == 2
\* records soft-deleted at a time
MaxSoftDeleted == 1

---------------------------------------------------------------------------
(* Program constants *)

\* CollectRequest.limit: Field(ge=1)
MinLimit == 1
\* self.subreddits[:5], self.popular_repos[:5] and limit // 5
SweepSources == 5
\* TwitterCollector.collect: count: int = 50
DefaultCount == 50
\* max_results=min(count, 100)
MaxResults == 100

Min(a, b) == IF a <= b THEN a ELSE b

Range(s) == { s[k] : k \in DOMAIN s }

\* s[:n] of a list, n >= 0
Take(s, n) == SubSeq(s, 1, Min(n, Len(s)))

\* the list s as a multiset: what a Python list holds, its order dropped
SeqToBag(s) == [ e \in Range(s) |-> Cardinality({ k \in DOMAIN s : s[k] = e }) ]

---------------------------------------------------------------------------
(* Strings *)

\* The phrases a raw text is built from.
Phrases ==
    { "need", "Broken", "feature request", "feature", "hate", "crash",
      "it crashes on startup", "glitch", "love", "how", "broken", "slow",
      "update dependency version", "app", "docs", "github", "notion" }

\* Issue label names.
LabelNames == { "bug", "Bug", "enhancement", "feature request", "documentation", "performance" }

\* Account names of @-mentions.
Usernames == { "GitHub", "github", "notion", "someone" }

\* str.lower()
Lower(s) ==
    CASE s = "Broken" -> "broken"
      [] s = "Bug" -> "bug"
      [] s = "GitHub" -> "github"
      [] OTHER -> s

\* str.capitalize(): the first character in upper case, the rest in lower case
Capitalize(s) ==
    CASE s = "github" -> "Github"
      [] s = "notion" -> "Notion"
      [] s = "@GitHub" -> "@github"
      [] OTHER -> s

\* f"@{mention.username}"
At(username) ==
    CASE username = "GitHub" -> "@GitHub"
      [] username = "github" -> "@github"
      [] username = "notion" -> "@notion"
      [] username = "someone" -> "@someone"

\* The keywords of the collectors that occur in the lowercase string s
\* (Python's  kw in s).
KeywordsIn(s) ==
    CASE s = "need" -> { "need" }
      [] s = "feature request" -> { "feature request", "feature", "request" }
      [] s = "feature" -> { "feature" }
      [] s = "hate" -> { "hate" }
      [] s = "crash" -> { "crash" }
      [] s = "it crashes on startup" -> { "crash" }
      [] s = "glitch" -> { "glitch" }
      [] s = "love" -> { "love" }
      [] s = "how" -> { "how" }
      [] s = "broken" -> { "broken" }
      [] s = "slow" -> { "slow" }
      [] s = "update dependency version" -> { "version" }
      [] s = "app" -> { "app" }
      [] s = "docs" -> { "docs" }
      [] s = "bug" -> { "bug" }
      [] s = "enhancement" -> { "enhancement" }
      [] s = "documentation" -> { "documentation" }
      [] s = "performance" -> { "performance" }
      [] s = "github" -> { "github" }
      [] s = "notion" -> { "notion" }
      [] OTHER -> {}

\* kw in s, for a string s
In(kw, s) == kw \in KeywordsIn(s)

\* full_text = f"{title} {content}".lower() ;  kw in full_text
InText(kw, text) == \E p \in text : In(kw, Lower(p))

\* any(kw in full_text for kw in keywords)
AnyIn(keywords, text) == \E kw \in keywords : InText(kw, text)

---------------------------------------------------------------------------
(* Keyword tables of the collectors *)

\* RedditCollector.request_keywords (lines 45-49)
reddit_request_keywords ==
    { "feature request", "missing", "need", "should have", "wish", "want", "why no",
      "does anyone have", "looking for", "suggestion", "implement", "add feature",
      "support", "integrate" }

\* RedditCollector.complaint_keywords (lines 51-55)
reddit_complaint_keywords ==
    { "hate", "frustrating", "annoying", "useless", "broken", "sucks", "terrible",
      "worst", "slow", "lag", "bug", "crash", "error", "fail", "problem" }

\* RedditCollector._categorize_post bug_keywords (lines 247-247)
reddit_bug_keywords ==
    { "bug", "crash", "error", "doesn't work", "not working", "glitch" }

\* RedditCollector._categorize_post praise_keywords (lines 252-252)
reddit_praise_keywords ==
    { "love", "great", "amazing", "awesome", "perfect", "best", "thanks" }

\* RedditCollector._categorize_post discussion_keywords (lines 257-257)
reddit_discussion_keywords ==
    { "how", "what", "why", "anyone", "experience", "opinion" }

\* RedditCollector._extract_tags feature_tags (lines 324-336)
reddit_feature_tags ==
    [ offline |->
          { "offline", "offline mode", "no internet", "without connection" },
      sync |->
          { "sync", "synchronize", "syncing" },
      export |->
          { "export", "download", "backup" },
      import |->
          { "import", "migrate", "transfer" },
      api |->
          { "api", "webhook", "integration" },
      mobile |->
          { "mobile", "ios", "android", "app" },
      collaboration |->
          { "collaborate", "team", "share", "real-time" },
      pricing |->
          { "pricing", "cost", "expensive", "cheap", "free" },
      performance |->
          { "slow", "lag", "performance", "speed" },
      ui |->
          { "ui", "design", "interface", "dark mode", "theme" },
      security |->
          { "security", "privacy", "encryption", "2fa" } ]

\* GitHubCollector._categorize_issue feature_keywords (lines 226-226)
github_feature_keywords ==
    { "add feature", "feature request", "would be nice", "support for", "implement" }

\* GitHubCollector._categorize_issue bug_keywords (lines 230-230)
github_bug_keywords ==
    { "bug", "issue", "problem", "doesn't work", "not working", "broken" }

\* GitHubCollector._extract_tags feature_tags (lines 269-276)
github_feature_tags ==
    [ documentation |->
          { "docs", "documentation", "readme", "tutorial" },
      performance |->
          { "slow", "performance", "optimize", "speed", "lag" },
      ui |->
          { "ui", "design", "interface", "css", "style" },
      security |->
          { "security", "vulnerability", "cve", "exploit" },
      compatibility |->
          { "compatible", "version", "browser", "platform" },
      testing |->
          { "test", "unit test", "integration", "e2e" } ]

\* TwitterCollector._categorize_tweet request_keywords (lines 224-227)
twitter_request_keywords ==
    { "feature request", "missing", "need", "should have", "wish", "want", "why no",
      "please add", "implement", "support" }

\* TwitterCollector._categorize_tweet complaint_keywords (lines 230-233)
twitter_complaint_keywords ==
    { "hate", "frustrating", "annoying", "useless", "broken", "sucks", "terrible",
      "worst", "slow", "lag" }

\* TwitterCollector._categorize_tweet discussion_keywords (lines 236-239)
twitter_discussion_keywords ==
    { "how", "what", "why", "anyone", "experience", "opinion", "thoughts", "feedback",
      "ideas" }

\* TwitterCollector._extract_tags feature_tags (lines 312-319)
twitter_feature_tags ==
    [ mobile |->
          { "mobile", "ios", "android", "app" },
      api |->
          { "api", "integration", "webhook" },
      ui |->
          { "ui", "design", "dark mode", "theme" },
      pricing |->
          { "pricing", "cost", "expensive", "price" },
      support |->
          { "support", "help", "customer service" },
      privacy |->
          { "privacy", "data", "security" } ]

---------------------------------------------------------------------------
(* Classifiers *)

Taxonomy == { "feature-request", "bug-report", "complaint", "praise", "discussion" }

\* _categorize_post with the bug keywords tested before the complaint
\* keywords: a faulty variant, which C14 has to tell from the code
categorize_post_bug_first(text) ==
    IF AnyIn(reddit_request_keywords, text) THEN "feature-request"
    ELSE IF AnyIn(reddit_bug_keywords, text) THEN "bug-report"
    ELSE IF AnyIn(reddit_complaint_keywords, text) THEN "complaint"
    ELSE IF AnyIn(reddit_praise_keywords, text) THEN "praise"
    ELSE IF AnyIn(reddit_discussion_keywords, text) THEN "discussion"
    ELSE None

\* RedditCollector._categorize_post
categorize_post(text) ==
    IF AnyIn(reddit_request_keywords, text) THEN "feature-request"
    ELSE IF AnyIn(reddit_complaint_keywords, text) THEN "complaint"
    ELSE IF AnyIn(reddit_bug_keywords, text) THEN "bug-report"
    ELSE IF AnyIn(reddit_praise_keywords, text) THEN "praise"
    ELSE IF AnyIn(reddit_discussion_keywords, text) THEN "discussion"
    ELSE None

\* The label loop of _categorize_issue: the first label that names a
\* category decides (from[k]: the outcome of the loop from position k on).
label_category(labels) ==
    LET from[k \in 1 .. Len(labels) + 1] ==
            IF k > Len(labels) THEN None
            ELSE LET label_name == Lower(labels[k]) IN
                 IF In("enhancement", label_name) \/ In("feature", label_name)
                       \/ In("request", label_name)
                 THEN "feature-request"
                 ELSE IF In("bug", label_name) \/ In("error", label_name)
                            \/ In("crash", label_name)
                 THEN "bug-report"
                 ELSE from[k + 1]
    IN from[1]

\* _categorize_issue with the keyword match on title and body before the
\* loop over the labels: a faulty variant, which C13 has to tell from the code
categorize_issue_text_first(text, labels) ==
    IF AnyIn(github_feature_keywords, text) THEN "feature-request"
    ELSE IF AnyIn(github_bug_keywords, text) THEN "bug-report"
    ELSE label_category(labels)

\* GitHubCollector._categorize_issue
categorize_issue(text, labels) ==
    LET by_label == label_category(labels) IN
    IF by_label # None THEN by_label
    ELSE IF AnyIn(github_feature_keywords, text) THEN "feature-request"
    ELSE IF AnyIn(github_bug_keywords, text) THEN "bug-report"
    ELSE None

\* _categorize_tweet with the complaint keywords tested before the request
\* keywords: a faulty variant, which C15 has to tell from the code
categorize_tweet_complaint_first(text) ==
    IF AnyIn(twitter_complaint_keywords, text) THEN "complaint"
    ELSE IF AnyIn(twitter_request_keywords, text) THEN "feature-request"
    ELSE IF AnyIn(twitter_discussion_keywords, text) THEN "discussion"
    ELSE None

\* TwitterCollector._categorize_tweet
categorize_tweet(text) ==
    IF AnyIn(twitter_request_keywords, text) THEN "feature-request"
    ELSE IF AnyIn(twitter_complaint_keywords, text) THEN "complaint"
    ELSE IF AnyIn(twitter_discussion_keywords, text) THEN "discussion"
    ELSE None

---------------------------------------------------------------------------
(* Tag extraction.  A tag list is kept as a bag: a Python list without its *)
(* order.                                                                  *)

\* the loop over feature_tags.items()
matched_tags(feature_tags, text) ==
    { tag \in DOMAIN feature_tags : AnyIn(feature_tags[tag], text) }

\* RedditCollector._extract_tags: list(set([category] + matched tags))
reddit_extract_tags(text, category) ==
    SetToBag({ category } \cup matched_tags(reddit_feature_tags, text))

\* GitHubCollector._extract_tags
github_extract_tags(text, category) ==
    SetToBag({ category } \cup matched_tags(github_feature_tags, text))

\* GitHubCollector._extract_labels: [label.name for label in labels]
extract_labels(labels) == SeqToBag(labels)

\* _extract_tags starting from tags = [] instead of tags = [category]:
\* a faulty variant, which C7 has to tell from the code
twitter_tags_without_category(text, category) ==
    SetToBag(matched_tags(twitter_feature_tags, text))

\* TwitterCollector._extract_tags
twitter_extract_tags(text, category) ==
    SetToBag({ category } \cup matched_tags(twitter_feature_tags, text))

---------------------------------------------------------------------------
(* Scorers.  A compound polarity score and a sentiment score are kept in   *)
(* hundredths: 5 is 0.05, 50 is 0.5, 100 is 1.0.  An upvote ratio is kept  *)
(* in hundredths as well.                                                  *)

\* abs()
Abs(n) == IF n < 0 THEN -n ELSE n

\* int(n / d) for d > 0: truncation towards zero
Trunc(n, d) == IF n >= 0 THEN n \div d ELSE -((-n) \div d)

\* _analyze_sentiment with strict comparisons: a faulty variant, which C16
\* has to tell from the code
analyze_sentiment_strict(compound) ==
    IF compound > 5 THEN << "positive", compound >>
    ELSE IF compound < -5 THEN << "negative", Abs(compound) >>
    ELSE << "neutral", 50 >>

\* _analyze_sentiment of the three collectors, from the compound score that
\* polarity_scores gave the text
analyze_sentiment(compound) ==
    IF compound >= 5 THEN << "positive", compound >>
    ELSE IF compound <= -5 THEN << "negative", Abs(compound) >>
    ELSE << "neutral", 50 >>

\* an interaction score from the net votes (upvotes minus downvotes): a
\* faulty variant, which C17 has to tell from the code
reddit_interaction_score_net(upvote_ratio, score, num_comments) ==
    Trunc((2 * upvote_ratio - 100) * score + 100 * (num_comments * 2), 100)

\* _parse_submission: int(upvote_ratio * score + num_comments * 2),
\* with upvote_ratio in hundredths
reddit_interaction_score(upvote_ratio, score, num_comments) ==
    Trunc(upvote_ratio * score + 100 * (num_comments * 2), 100)

\* _parse_issue: issue.reactions.total_count + issue.comments * 2
github_interaction_score(total_count, comments) ==
    total_count + comments * 2

\* _parse_tweet: like_count + reply_count * 2 + retweet_count * 3
\*               + quote_count * 2
twitter_interaction_score(like_count, reply_count, retweet_count, quote_count) ==
    like_count + reply_count * 2 + retweet_count * 3 + quote_count * 2

---------------------------------------------------------------------------
(* Product mentions.  A product list is kept as a bag, like a tag list. *)

\* RedditCollector._extract_product_mentions products (lines 294-304)
reddit_products ==
    { "notion", "figma", "github", "gitlab", "linear", "jira", "trello", "slack",
      "discord", "zoom", "teams", "gmail", "outlook", "vscode", "intellij", "vim",
      "emacs", "xcode", "chrome", "firefox", "safari", "edge", "aws", "azure",
      "gcp", "heroku", "vercel", "netlify", "docker", "kubernetes", "terraform",
      "ansible", "react", "vue", "angular", "svelte", "nextjs", "nuxt", "python",
      "javascript", "typescript", "java", "go", "rust", "mongodb", "postgresql",
      "mysql", "redis", "elasticsearch" }

\* TwitterCollector._extract_product_mentions product_accounts (lines 280-284)
twitter_product_accounts ==
    { "github", "notion", "figma", "vercel", "netlify", "slack", "discord", "zoom",
      "awscloud", "googlecloud", "docker", "kubernetesio", "gitlab", "realtwitter",
      "x" }

\* TwitterCollector._extract_product_mentions product_list (lines 290-294)
twitter_product_list ==
    { "notion", "figma", "github", "gitlab", "slack", "discord", "zoom", "aws",
      "azure", "gcp", "heroku", "vercel", "netlify", "docker", "kubernetes",
      "react", "vue", "angular", "nextjs" }

\* RedditCollector._extract_product_mentions: list(set(found))
reddit_extract_product_mentions(text) ==
    SetToBag({ Capitalize(product) :
                 product \in { q \in reddit_products : InText(q, text) } })

\* the loop over entities["mentions"]: one entry per mention of a product
\* account (found[k]: the list after the first k mentions)
mentioned_accounts(mentions) ==
    LET found[k \in 0 .. Len(mentions)] ==
            IF k = 0 THEN << >>
            ELSE IF Lower(mentions[k]) \in twitter_product_accounts
                 THEN Append(found[k - 1], Capitalize(At(mentions[k])))
                 ELSE found[k - 1]
    IN found[Len(mentions)]

\* TwitterCollector._extract_product_mentions
twitter_extract_product_mentions(mentions, text) ==
    LET products == mentioned_accounts(mentions) IN
    SeqToBag(products)
      (+) SetToBag({ Capitalize(product) :
                       product \in { q \in twitter_product_list : InText(q, text) } }
                   \ Range(products))

---------------------------------------------------------------------------
(* Item parsers: one raw item to a normalized record.  An Optional[Dict] *)
(* is a sequence of at most one record: << >> is None.                    *)
(*                                                                         *)
(* A raw item has the fields                                               *)
(*   id            the post, issue or tweet                                *)
(*   text          title and body                                          *)
(*   labels        issue.labels (names)                                    *)
(*   malformed     a field the parser reads is missing or of a wrong type: *)
(*                 reading it raises inside the parser's try block         *)
(*   compound      the compound polarity score of the text, in hundredths  *)
(*   score         submission.score, issue.reactions.total_count,          *)
(*                 like_count                                              *)
(*   upvote_ratio  submission.upvote_ratio, in hundredths                  *)
(*   num_comments  submission.num_comments, issue.comments, reply_count    *)
(*   retweet_count, quote_count                                            *)
(*   mentions      the usernames of tweet.entities["mentions"]             *)
(*   unavailable   the source fails to deliver the listing from this       *)
(*                 position on: the iteration over the listing raises here *)

NoData == << >>

\* f"https://reddit.com{submission.permalink}", issue.html_url,
\* f"https://twitter.com/i/web/status/{tweet.id}"
url_of(source, id) == << source, id >>

\* _parse_submission with the test "if not category: return None" left out:
\* a faulty variant, which C6 has to tell from the code
parse_submission_unfiltered(submission) ==
    LET category == categorize_post(submission.text) IN
    << [ source_url |-> url_of("reddit", submission.id),
         platform   |-> "reddit",
         category   |-> category,
         tags       |-> reddit_extract_tags(submission.text, category),
         sentiment         |-> analyze_sentiment(submission.compound)[1],
         sentiment_score   |-> analyze_sentiment(submission.compound)[2],
         interaction_score |->
             reddit_interaction_score(submission.upvote_ratio, submission.score,
                                      submission.num_comments),
         product_mentioned |-> reddit_extract_product_mentions(submission.text) ] >>

\* RedditCollector._parse_submission
parse_submission(submission) ==
    LET category == categorize_post(submission.text) IN
    IF submission.malformed THEN NoData     \* except Exception: return None
    ELSE IF category = None THEN NoData
    ELSE << [ source_url |-> url_of("reddit", submission.id),
              platform   |-> "reddit",
              category   |-> category,
              tags       |-> reddit_extract_tags(submission.text, category),
              sentiment         |-> analyze_sentiment(submission.compound)[1],
              sentiment_score   |-> analyze_sentiment(submission.compound)[2],
              interaction_score |->
                  reddit_interaction_score(submission.upvote_ratio,
                                           submission.score,
                                           submission.num_comments),
              product_mentioned |->
                  reddit_extract_product_mentions(submission.text) ] >>

\* GitHubCollector._parse_issue; product_mentioned is [repo_name], one entry
parse_issue(issue) ==
    LET category == categorize_issue(issue.text, issue.labels) IN
    IF issue.malformed THEN NoData          \* except Exception: return None
    ELSE IF category \notin { "feature-request", "bug-report" } THEN NoData
    ELSE << [ source_url |-> url_of("github", issue.id),
              platform   |-> "github",
              category   |-> category,
              tags       |-> extract_labels(issue.labels)
                               (+) github_extract_tags(issue.text, category),
              sentiment         |-> analyze_sentiment(issue.compound)[1],
              sentiment_score   |-> analyze_sentiment(issue.compound)[2],
              interaction_score |->
                  github_interaction_score(issue.score, issue.num_comments),
              product_mentioned |-> SetToBag({ "repo" }) ] >>

\* TwitterCollector._parse_tweet
parse_tweet(tweet) ==
    LET category == categorize_tweet(tweet.text) IN
    IF tweet.malformed THEN NoData          \* except Exception: return None
    ELSE IF category = None THEN NoData
    ELSE << [ source_url |-> url_of("twitter", tweet.id),
              platform   |-> "twitter",
              category   |-> category,
              tags       |-> twitter_extract_tags(tweet.text, category),
              sentiment         |-> analyze_sentiment(tweet.compound)[1],
              sentiment_score   |-> analyze_sentiment(tweet.compound)[2],
              interaction_score |->
                  twitter_interaction_score(tweet.score, tweet.num_comments,
                                            tweet.retweet_count,
                                            tweet.quote_count),
              product_mentioned |->
                  twitter_extract_product_mentions(tweet.mentions,
                                                   tweet.text) ] >>

\* the _parse_* method of the collector of platform source
parse_item(source, item) ==
    CASE source = "reddit"  -> parse_submission(item)
      [] source = "github"  -> parse_issue(item)
      [] source = "twitter" -> parse_tweet(item)

\* the fetch loop with the parser's exception reaching the except clause
\* around the loop, which ends the batch at the first malformed item:
\* a faulty variant, which C12 has to tell from the code
parse_all_aborting(source, items) ==
    LET results[k \in 0 .. Len(items)] ==
            IF k = 0 THEN << >>
            ELSE IF \E j \in 1 .. k : items[j].malformed THEN results[k - 1]
            ELSE results[k - 1] \o parse_item(source, items[k])
    IN results[Len(items)]

\* for item in items: data = parse(item); if data: results.append(data)
\* (results[k]: the list after the first k items)
parse_all(source, items) ==
    LET results[k \in 0 .. Len(items)] ==
            IF k = 0 THEN << >>
            ELSE LET data == parse_item(source, items[k]) IN
                 IF data # NoData THEN results[k - 1] \o data
                 ELSE results[k - 1]
    IN results[Len(items)]
---------------------------------------------------------------------------
(* The source platforms, as one collector invocation sees them *)

ItemIds == 1 .. MaxItemId

\* the texts of the items the platforms hold
FetchTexts == { { "update dependency version" }, { "Broken", "slow" } }

\* a well-formed raw item without labels, mentions or engagement
PlainItem(id, text) ==
    [ id |-> id, text |-> text, labels |-> << >>, malformed |-> FALSE,
      compound |-> 0, score |-> 0, upvote_ratio |-> 100, num_comments |-> 0,
      retweet_count |-> 0, quote_count |-> 0, mentions |-> << >>,
      unavailable |-> FALSE ]

\* a raw submission, issue or tweet
RawItems == { PlainItem(id, text) : id \in ItemIds, text \in FetchTexts }

\* the lists of at most n raw items
Listings(n) == UNION { [ 1 .. k -> RawItems ] : k \in 0 .. n }

\* the part of listing s that source k holds, when item j is held by source cut[j]
Held(s, cut, k) ==
    LET at == { j \in DOMAIN s : cut[j] = k } IN
    IF at = {} THEN << >>
    ELSE SubSeq(s, CHOOSE j \in at : \A j2 \in at : j <= j2,
                   CHOOSE j \in at : \A j2 \in at : j2 <= j)

\* What the swept sources hold: source k |-> its listing, n items in all.
\* An explicit target or a search reads the listing of source 1.
FeedsOf(listings, n) ==
    { [ k \in 1 .. SweepSources |-> Held(s, cut, k) ] :
        s \in listings,
        cut \in { c \in [ 1 .. n -> 1 .. SweepSources ] :
                    \A j \in 1 .. n - 1 : c[j] <= c[j + 1] } }

\* the feeds the runs of the coordinator meet
Feeds == FeedsOf(Listings(MaxFetch), MaxFetch)

---------------------------------------------------------------------------
(* Collectors.  up: the platform answers; when it does not, each fetch     *)
(* raises and the except clause around it leaves that fetch's list empty.  *)

\* the items a listing delivers before its iteration raises
Served(listing) ==
    LET failing == { j \in DOMAIN listing : listing[j].unavailable } IN
    IF failing = {} THEN listing
    ELSE SubSeq(listing, 1,
                (CHOOSE j \in failing : \A j2 \in failing : j <= j2) - 1)

\* a fetch that reads the whole listing, whatever the limit: a faulty
\* variant, which C29 has to tell from the code
collect_listing_unlimited(source, up, listing, limit) ==
    IF up THEN parse_all(source, Served(listing)) ELSE << >>

\* _collect_from_subreddit, _search_reddit, _collect_from_repo, _search_github:
\* fetch at most limit items, parse each, keep the ones that parse to a
\* record; the except clause around the loop keeps what was parsed before
\* the listing raised
collect_listing(source, up, listing, limit) ==
    IF up THEN parse_all(source, Served(Take(listing, limit))) ELSE << >>

\* the sweep with the failure of one source reaching the except clause of
\* collect, which returns []: a faulty variant, which C22 has to tell from
\* the code
sweep_aborting(source, up, feed, limit) ==
    LET results[k \in 0 .. SweepSources] ==
            IF k = 0 THEN << >>
            ELSE results[k - 1] \o
                 collect_listing(source, up, feed[k], limit \div SweepSources)
    IN IF \E k \in 1 .. SweepSources :
             Served(Take(feed[k], limit \div SweepSources))
                 # Take(feed[k], limit \div SweepSources)
       THEN << >>
       ELSE results[SweepSources]

\* for sub in self.subreddits[:5]: results.extend(... limit // 5)
\* (results[k]: the list after the first k sources)
sweep(source, up, feed, limit) ==
    LET results[k \in 0 .. SweepSources] ==
            IF k = 0 THEN << >>
            ELSE results[k - 1] \o
                 collect_listing(source, up, feed[k], limit \div SweepSources)
    IN results[SweepSources]

\* RedditCollector.collect
reddit_collect(query, subreddit, limit, up, feed) ==
    IF subreddit # None THEN collect_listing("reddit", up, feed[1], limit)
    ELSE IF query # None THEN collect_listing("reddit", up, feed[1], limit)
    ELSE sweep("reddit", up, feed, limit)

\* GitHubCollector.collect
github_collect(query, repo, limit, up, feed) ==
    IF repo # None THEN collect_listing("github", up, feed[1], limit)
    ELSE IF query # None THEN collect_listing("github", up, feed[1], limit)
    ELSE sweep("github", up, feed, limit)

\* TwitterCollector.collect; client is None without a bearer token
twitter_collect(client, query, user, count, up, feed) ==
    IF client = None THEN << >>
    ELSE IF user # None
         THEN collect_listing("twitter", up, feed[1], Min(count, MaxResults))
    ELSE IF query # None
         THEN collect_listing("twitter", up, feed[1], Min(count, MaxResults))
    ELSE << >>

\* whether the invocation reaches a network call
twitter_fetches(client, query, user) ==
    client # None /\ (user # None \/ query # None)

(* The fetches an invocation asks for, in order.  mode: which branch of    *)
(* collect asked; source: the listing read (1 for an explicit target or a  *)
(* search, k for the k-th entry of the curated list); limit: the number of *)
(* items asked for.                                                        *)

\* the loop over self.subreddits[:5] / self.popular_repos[:5]
sweep_requests(limit) ==
    [ k \in 1 .. SweepSources |->
        [ mode |-> "sweep", source |-> k, limit |-> limit \div SweepSources ] ]

\* RedditCollector.collect with the tests for query and subreddit in the
\* other order: a faulty variant, which C11 has to tell from the code
reddit_requests_query_first(query, subreddit, limit) ==
    IF query # None
    THEN << [ mode |-> "query", source |-> 1, limit |-> limit ] >>
    ELSE IF subreddit # None
    THEN << [ mode |-> "target", source |-> 1, limit |-> limit ] >>
    ELSE sweep_requests(limit)

\* RedditCollector.collect: the calls of _collect_from_subreddit, _search_reddit
reddit_requests(query, subreddit, limit) ==
    IF subreddit # None
    THEN << [ mode |-> "target", source |-> 1, limit |-> limit ] >>
    ELSE IF query # None
    THEN << [ mode |-> "query", source |-> 1, limit |-> limit ] >>
    ELSE sweep_requests(limit)

\* GitHubCollector.collect: the calls of _collect_from_repo, _search_github
github_requests(query, repo, limit) ==
    IF repo # None
    THEN << [ mode |-> "target", source |-> 1, limit |-> limit ] >>
    ELSE IF query # None
    THEN << [ mode |-> "query", source |-> 1, limit |-> limit ] >>
    ELSE sweep_requests(limit)

\* TwitterCollector.collect: the calls of _collect_from_user, _search_twitter
twitter_requests(client, query, user, count) ==
    IF client = None THEN << >>
    ELSE IF user # None
    THEN << [ mode |-> "target", source |-> 1,
              limit |-> Min(count, MaxResults) ] >>
    ELSE IF query # None
    THEN << [ mode |-> "query", source |-> 1,
              limit |-> Min(count, MaxResults) ] >>
    ELSE << >>
---------------------------------------------------------------------------
(* The ingestion coordinator: collect_data, one request per run *)

Runs == 1 .. NumRuns

\* PlatformEnum
Platforms == { "reddit", "github", "twitter", "all" }

\* the platforms collect_data has a collector for
Supported == { "reddit", "github", "twitter" }

\* the keyword arguments of the call collector.collect(...) in collect_data
CollectCallKeywords == { "query", "subreddit", "repo", "user", "time_filter", "limit" }

\* the parameters the collect method of each collector declares (all optional)
CollectParams(p) ==
    CASE p = "reddit"  -> { "query", "subreddit", "time_filter", "limit" }
      [] p = "github"  -> { "query", "repo", "state", "limit" }
      [] p = "twitter" -> { "query", "user", "count" }

VARIABLES
    twitter_bearer_token,  \* settings.twitter_bearer_token: "" or a token
    callsite,       \* which keywords the call of collect passes (see Keywords)
    store,          \* the committed rows of the demands table
    pc,             \* run -> where its handler is suspended
    platform,       \* run -> request.platform
    collected_data, \* run -> the list collect() returned
    idx,            \* run -> position of the for loop in collected_data
    pending,        \* run -> the records db.add put in the session, unflushed
    saved_count,    \* run -> saved_count
    response,       \* run -> the HTTP response
    source_up,      \* run -> whether the source platform answered this run
    fetched,        \* run -> whether the run reached a network call
    rejected,       \* run -> fetched items the classifier gave no category
    raised,         \* run -> the exception the except clause caught
    conflict,       \* run -> source_urls another run committed between this
                    \*        run's lookup and its commit
    after,          \* run -> the runs that had ended when this one began
    parse_call,     \* one call of a collector's _parse_* method, on its own
    collect_call,   \* one call of a collector's collect method, on its own
    user_bookmarks, \* the committed rows of the user_bookmarks table
    handler         \* bookmark request -> where its handler is, with its
                    \* arguments and its answer

\* the state of the coordinator and its runs
coordinator_vars ==
    << twitter_bearer_token, callsite, store, pc, platform, collected_data,
       idx, pending, saved_count, response, source_up, fetched, rejected,
       raised, conflict, after >>

vars == << twitter_bearer_token, callsite, store, pc, platform, collected_data,
           idx, pending, saved_count, response, source_up, fetched, rejected,
           raised, conflict, after, parse_call, collect_call,
           user_bookmarks, handler >>

NoResponse == [ status |-> 0, success |-> FALSE, collected_count |-> 0,
                detail |-> None ]

\* CollectResponse(success=True, collected_count=saved_count, ...)
CollectResponse(n) ==
    [ status |-> 200, success |-> TRUE, collected_count |-> n,
      detail |-> "collected" ]

\* HTTPException(status_code, detail): no CollectResponse body
HTTPException(code, detail) ==
    [ status |-> code, success |-> FALSE, collected_count |-> 0,
      detail |-> detail ]

\* TwitterCollector.__init__: the client exists iff a bearer token is set
twitter_client == IF twitter_bearer_token # "" THEN "client" ELSE None

\* is_configured answering True whatever the token: a faulty variant,
\* which C8 has to tell from the code
always_configured == TRUE

\* TwitterCollector.is_configured
is_configured == twitter_client # None

CallSites == { "as written", "per collector" }

\* a call of collect that is not collect_data's: each declared parameter is
\* passed by its own name
OwnParameters == "own parameters"

\* the keyword arguments the call passes to the collector of platform p
Keywords(site, p) ==
    IF site = "as written" THEN CollectCallKeywords
    ELSE IF site = OwnParameters THEN CollectParams(p)
    ELSE CollectCallKeywords \cap CollectParams(p)

\* Python binds a call iff every keyword names a parameter (no **kwargs)
Binds(site, p) == Keywords(site, p) \subseteq CollectParams(p)

\* the value parameter name takes in the call: the request's, or the default
Arg(site, p, name, value, default) ==
    IF name \in Keywords(site, p) THEN value ELSE default

\* the dispatch on collector, with the request's fields as arguments
collect(site, client, p, query, target, limit, up, feed) ==
    CASE p = "reddit"  -> reddit_collect(query, target, limit, up, feed)
      [] p = "github"  -> github_collect(query, target, limit, up, feed)
      [] p = "twitter" ->
            twitter_collect(client, query, target,
                            Arg(site, p, "count", limit, DefaultCount), up, feed)

\* whether collect reaches a network call
fetches(client, p, query, target) ==
    IF p = "twitter" THEN twitter_fetches(client, query, target)
    ELSE TRUE

\* the limit a listing is fetched with
listing_limit(site, p, limit) ==
    IF p = "twitter"
    THEN Min(Arg(site, p, "count", limit, DefaultCount), MaxResults)
    ELSE limit

\* the number of raw items a sweep fetched
swept_count(feed, limit) ==
    LET n[k \in 0 .. SweepSources] ==
            IF k = 0 THEN 0
            ELSE n[k - 1] + Len(Take(feed[k], limit \div SweepSources))
    IN n[SweepSources]

\* the number of raw items the invocation fetched
fetch_count(site, client, p, query, target, limit, up, feed) ==
    IF ~up \/ ~fetches(client, p, query, target) THEN 0
    ELSE IF target # None \/ query # None
         THEN Len(Take(feed[1], listing_limit(site, p, limit)))
    ELSE swept_count(feed, limit)

\* Every way one invocation of collect can end, over the requests and over
\* what the platform holds: the list returned, with whether the platform
\* answered, whether a network call was reached and how many fetched items
\* were dropped.
Invocations ==
    { [ site |-> site, client |-> client, platform |-> p,
        out |-> collect(site, client, p, query, target, limit, up, feed),
        up |-> up,
        fetched |-> fetches(client, p, query, target),
        rejected |->
            fetch_count(site, client, p, query, target, limit, up, feed)
              - Len(collect(site, client, p, query, target, limit, up, feed)) ] :
        site \in CallSites, client \in { None, "client" }, p \in Supported,
        query \in { None, "q" }, target \in { None, "t" },
        limit \in MinLimit .. MaxLimit, up \in BOOLEAN, feed \in Feeds }

TypeOK ==
    /\ twitter_bearer_token \in { "", "token" }
    /\ callsite \in CallSites \cup { OwnParameters }
    /\ pc \in [ Runs -> { "idle", "lookup", "commit", "rollback", "done" } ]
    /\ platform \in [ Runs -> Platforms \cup { None } ]
    /\ idx \in [ Runs -> 1 .. MaxFetch + 1 ]
    /\ saved_count \in [ Runs -> 0 .. MaxFetch ]
    /\ source_up \in [ Runs -> BOOLEAN ]
    /\ fetched \in [ Runs -> BOOLEAN ]
    /\ after \in [ Runs -> SUBSET Runs ]

InitRuns ==
    /\ twitter_bearer_token \in { "", "token" }
    /\ store = {}
    /\ pc = [ r \in Runs |-> "idle" ]
    /\ platform = [ r \in Runs |-> None ]
    /\ collected_data = [ r \in Runs |-> << >> ]
    /\ idx = [ r \in Runs |-> 1 ]
    /\ pending = [ r \in Runs |-> << >> ]
    /\ saved_count = [ r \in Runs |-> 0 ]
    /\ response = [ r \in Runs |-> NoResponse ]
    /\ source_up = [ r \in Runs |-> TRUE ]
    /\ fetched = [ r \in Runs |-> FALSE ]
    /\ rejected = [ r \in Runs |-> 0 ]
    /\ raised = [ r \in Runs |-> None ]
    /\ conflict = [ r \in Runs |-> {} ]
    /\ after = [ r \in Runs |-> {} ]

\* no call of a parser on its own
NoParse == [ source |-> None, item |-> None, stage |-> "none", data |-> NoData ]

\* no call of a collector on its own
NoCollect == [ source |-> None, stage |-> "none" ]

\* bookmark requests
Requests == 1 .. NumRequests

\* a bookmark request that has not arrived
NoHandler ==
    [ pc |-> "idle", op |-> None, user |-> None, bookmark_id |-> << 0, 0 >>,
      demand_id |-> << 0, 0 >>, notes |-> None, status |-> 0, body |-> None,
      raised |-> None, writes |-> {}, before |-> {} ]

\* no bookmark and no bookmark request
NoBookmarks ==
    /\ user_bookmarks = {}
    /\ handler = [ q \in Requests |-> NoHandler ]

\* the program as written
Init ==
    /\ callsite = "as written"
    /\ InitRuns
    /\ parse_call = NoParse
    /\ collect_call = NoCollect
    /\ NoBookmarks

\* the program with the call of collect passing each collector only the
\* keywords its signature declares
InitCallBinds ==
    /\ callsite = "per collector"
    /\ InitRuns
    /\ parse_call = NoParse
    /\ collect_call = NoCollect
    /\ NoBookmarks

---------------------------------------------------------------------------
(* Steps of collect_data.  A step runs from one suspension of the handler  *)
(* (an awaited database call) to the next; collect() does not suspend.     *)

\* the rejection raised inside the try block, where except Exception turns
\* it into HTTP 500: a faulty variant, which C28 has to tell from the code
RejectPlatformInsideTry(r) ==
    /\ pc[r] = "idle"
    /\ UNCHANGED << parse_call, collect_call, user_bookmarks, handler >>
    /\ \E p \in Platforms \ Supported :
          /\ platform' = [ platform EXCEPT ![r] = p ]
          /\ response' = [ response EXCEPT
                             ![r] = HTTPException(500, "collection failed") ]
    /\ pc' = [ pc EXCEPT ![r] = "done" ]
    /\ after' = [ after EXCEPT ![r] = { q \in Runs : pc[q] = "done" } ]
    /\ UNCHANGED << twitter_bearer_token, callsite, store, collected_data, idx,
                    pending, saved_count, source_up, fetched, rejected, raised,
                    conflict >>

\* lines 44-55: a platform without a collector
RejectPlatform(r) ==
    /\ pc[r] = "idle"
    /\ UNCHANGED << parse_call, collect_call, user_bookmarks, handler >>
    /\ \E p \in Platforms \ Supported :
          /\ platform' = [ platform EXCEPT ![r] = p ]
          /\ response' = [ response EXCEPT
                             ![r] = HTTPException(400, "unsupported platform") ]
    /\ pc' = [ pc EXCEPT ![r] = "done" ]
    /\ after' = [ after EXCEPT ![r] = { q \in Runs : pc[q] = "done" } ]
    /\ UNCHANGED << twitter_bearer_token, callsite, store, collected_data, idx,
                    pending, saved_count, source_up, fetched, rejected, raised,
                    conflict >>

\* lines 57-62: Twitter without credentials
RejectNotConfigured(r) ==
    /\ pc[r] = "idle"
    /\ UNCHANGED << parse_call, collect_call, user_bookmarks, handler >>
    /\ ~is_configured
    /\ platform' = [ platform EXCEPT ![r] = "twitter" ]
    /\ response' = [ response EXCEPT
                       ![r] = HTTPException(400, "twitter not configured") ]
    /\ pc' = [ pc EXCEPT ![r] = "done" ]
    /\ after' = [ after EXCEPT ![r] = { q \in Runs : pc[q] = "done" } ]
    /\ UNCHANGED << twitter_bearer_token, callsite, store, collected_data, idx,
                    pending, saved_count, source_up, fetched, rejected, raised,
                    conflict >>

\* whether the request for platform p passes the checks of lines 48-62
Accepted(p) == p \in Supported /\ (p = "twitter" => is_configured)

\* lines 64-73, 99: the call of collect does not bind and raises TypeError
CollectRaises(r) ==
    /\ pc[r] = "idle"
    /\ UNCHANGED << parse_call, collect_call, user_bookmarks, handler >>
    /\ \E p \in Platforms, up \in BOOLEAN :
          /\ Accepted(p)
          /\ ~Binds(callsite, p)
          /\ platform' = [ platform EXCEPT ![r] = p ]
          /\ source_up' = [ source_up EXCEPT ![r] = up ]
    /\ raised' = [ raised EXCEPT ![r] = "TypeError" ]
    /\ pc' = [ pc EXCEPT ![r] = "rollback" ]
    /\ after' = [ after EXCEPT ![r] = { q \in Runs : pc[q] = "done" } ]
    /\ UNCHANGED << twitter_bearer_token, callsite, store, collected_data, idx,
                    pending, saved_count, response, fetched, rejected, conflict >>

\* lines 64-77: collect returns its list and the loop begins
CollectReturns(r) ==
    /\ pc[r] = "idle"
    /\ UNCHANGED << parse_call, collect_call, user_bookmarks, handler >>
    /\ \E p \in Platforms :
          /\ Accepted(p)
          /\ Binds(callsite, p)
          /\ \E call \in Invocations :
                /\ call.site = callsite
                /\ call.client = twitter_client
                /\ call.platform = p
                /\ platform' = [ platform EXCEPT ![r] = p ]
                /\ source_up' = [ source_up EXCEPT ![r] = call.up ]
                /\ fetched' = [ fetched EXCEPT ![r] = call.fetched ]
                /\ rejected' = [ rejected EXCEPT ![r] = call.rejected ]
                /\ collected_data' = [ collected_data EXCEPT ![r] = call.out ]
                /\ pc' = [ pc EXCEPT ![r] =
                             IF call.out = << >> THEN "commit" ELSE "lookup" ]
    /\ after' = [ after EXCEPT ![r] = { q \in Runs : pc[q] = "done" } ]
    /\ UNCHANGED << twitter_bearer_token, callsite, store, idx, pending,
                    saved_count, response, raised, conflict >>

\* the lookup with soft-deleted records filtered out, as the search and
\* statistics queries do (Demand.is_deleted == False): a faulty variant,
\* which C26 has to tell from the code
existing_not_deleted(url) ==
    { row \in store : row.source_url = url /\ ~row.is_deleted }

\* select(Demand).where(Demand.source_url == url) on the committed table:
\* the session does not autoflush, so its own pending records are not seen
existing(url) == { row \in store : row.source_url = url }

\* lines 77-88: one pass of the loop, from the answer of the lookup on
Lookup(r) ==
    /\ pc[r] = "lookup"
    /\ UNCHANGED << parse_call, collect_call, user_bookmarks, handler >>
    /\ LET data == collected_data[r][idx[r]]
           found == existing(data.source_url)
           last == idx[r] = Len(collected_data[r])
       IN
       IF Cardinality(found) > 1
       THEN \* scalar_one_or_none raises MultipleResultsFound
            /\ raised' = [ raised EXCEPT ![r] = "MultipleResultsFound" ]
            /\ pc' = [ pc EXCEPT ![r] = "rollback" ]
            /\ UNCHANGED << idx, pending, saved_count >>
       ELSE /\ IF found # {}
               THEN UNCHANGED << pending, saved_count >>
               ELSE /\ pending' = [ pending EXCEPT ![r] = Append(@, data) ]
                    /\ saved_count' = [ saved_count EXCEPT ![r] = @ + 1 ]
            /\ idx' = [ idx EXCEPT ![r] = @ + 1 ]
            /\ pc' = [ pc EXCEPT ![r] = IF last THEN "commit" ELSE "lookup" ]
            /\ UNCHANGED raised
    /\ UNCHANGED << twitter_bearer_token, callsite, store, platform,
                    collected_data, response, source_up, fetched, rejected,
                    conflict, after >>

\* line 79: the store does not answer the lookup
LookupFails(r) ==
    /\ pc[r] = "lookup"
    /\ UNCHANGED << parse_call, collect_call, user_bookmarks, handler >>
    /\ raised' = [ raised EXCEPT ![r] = "OperationalError" ]
    /\ pc' = [ pc EXCEPT ![r] = "rollback" ]
    /\ UNCHANGED << twitter_bearer_token, callsite, store, platform,
                    collected_data, idx, pending, saved_count, response,
                    source_up, fetched, rejected, conflict, after >>

\* Demand(**data) with its uuid4 primary key: the k-th record run r added;
\* is_deleted takes its column default
Demand(r, k, data) ==
    [ id |-> << r, k >>, source_url |-> data.source_url,
      platform |-> data.platform, category |-> data.category,
      tags |-> data.tags, sentiment |-> data.sentiment,
      sentiment_score |-> data.sentiment_score,
      interaction_score |-> data.interaction_score,
      product_mentioned |-> data.product_mentioned,
      is_deleted |-> FALSE ]

\* the INSERTs the flush of the session issues
Inserts(r) == { Demand(r, k, pending[r][k]) : k \in DOMAIN pending[r] }

\* a commit whose flush replaces the rows that hold a source_url of a pending
\* record (an upsert): a faulty variant, which C21 has to tell from the code
CommitUpserts(r) ==
    /\ pc[r] = "commit"
    /\ UNCHANGED << parse_call, collect_call, user_bookmarks, handler >>
    /\ store' = { row \in store :
                    row.source_url \notin
                        { new.source_url : new \in Inserts(r) } }
                \cup Inserts(r)
    /\ conflict' = [ conflict EXCEPT ![r] =
            { row.source_url : row \in Inserts(r) } \cap
            { row.source_url : row \in store } ]
    /\ response' = [ response EXCEPT ![r] = CollectResponse(saved_count[r]) ]
    /\ pc' = [ pc EXCEPT ![r] = "done" ]
    /\ UNCHANGED << twitter_bearer_token, callsite, platform, collected_data,
                    idx, pending, saved_count, source_up, fetched, rejected,
                    raised, after >>

\* lines 90-97: the commit flushes the pending records and the run answers
Commit(r) ==
    /\ pc[r] = "commit"
    /\ UNCHANGED << parse_call, collect_call, user_bookmarks, handler >>
    /\ store' = store \cup Inserts(r)
    /\ conflict' = [ conflict EXCEPT ![r] =
            { row.source_url : row \in Inserts(r) } \cap
            { row.source_url : row \in store } ]
    /\ response' = [ response EXCEPT ![r] = CollectResponse(saved_count[r]) ]
    /\ pc' = [ pc EXCEPT ![r] = "done" ]
    /\ UNCHANGED << twitter_bearer_token, callsite, platform, collected_data,
                    idx, pending, saved_count, source_up, fetched, rejected,
                    raised, after >>

\* line 90: the commit fails; the transaction leaves nothing behind.
\* (A session that executed no statement has no transaction to commit.)
CommitFails(r) ==
    /\ pc[r] = "commit"
    /\ UNCHANGED << parse_call, collect_call, user_bookmarks, handler >>
    /\ collected_data[r] # << >>
    /\ raised' = [ raised EXCEPT ![r] = "OperationalError" ]
    /\ pc' = [ pc EXCEPT ![r] = "rollback" ]
    /\ UNCHANGED << twitter_bearer_token, callsite, store, platform,
                    collected_data, idx, pending, saved_count, response,
                    source_up, fetched, rejected, conflict, after >>

\* an except clause that commits what the session holds before it answers
\* 500: a faulty variant, which C10 has to tell from the code
RollbackCommits(r) ==
    /\ pc[r] = "rollback"
    /\ UNCHANGED << parse_call, collect_call, user_bookmarks, handler >>
    /\ store' = store \cup Inserts(r)
    /\ response' = [ response EXCEPT
                       ![r] = HTTPException(500, "collection failed") ]
    /\ pc' = [ pc EXCEPT ![r] = "done" ]
    /\ UNCHANGED << twitter_bearer_token, callsite, platform, collected_data,
                    idx, pending, saved_count, source_up, fetched, rejected,
                    raised, conflict, after >>

\* lines 99-101: rollback, then HTTP 500
Rollback(r) ==
    /\ pc[r] = "rollback"
    /\ UNCHANGED << parse_call, collect_call, user_bookmarks, handler >>
    /\ pending' = [ pending EXCEPT ![r] = << >> ]
    /\ response' = [ response EXCEPT
                       ![r] = HTTPException(500, "collection failed") ]
    /\ pc' = [ pc EXCEPT ![r] = "done" ]
    /\ UNCHANGED << twitter_bearer_token, callsite, store, platform,
                    collected_data, idx, saved_count, source_up, fetched,
                    rejected, raised, conflict, after >>

\* the steps the program as written can take
Next ==
    \E r \in Runs :
        \/ RejectPlatform(r)
        \/ RejectNotConfigured(r)
        \/ CollectRaises(r)
        \/ Rollback(r)

Spec == Init /\ [][Next]_vars

\* the steps of the handler once the call of collect binds
NextCallBinds ==
    \E r \in Runs :
        \/ RejectPlatform(r)
        \/ RejectNotConfigured(r)
        \/ CollectReturns(r)
        \/ Lookup(r)
        \/ LookupFails(r)
        \/ Commit(r)
        \/ CommitFails(r)
        \/ Rollback(r)

SpecCallBinds == InitCallBinds /\ [][NextCallBinds]_vars

\* An administrative path outside the pipeline soft-deletes a stored record:
\* it sets the record's is_deleted flag.
SoftDelete(row) ==
    /\ row \in store
    /\ ~row.is_deleted
    /\ Cardinality({ gone \in store : gone.is_deleted }) < MaxSoftDeleted
    /\ store' = (store \ { row }) \cup { [ row EXCEPT !.is_deleted = TRUE ] }
    /\ UNCHANGED << twitter_bearer_token, callsite, pc, platform,
                    collected_data, idx, pending, saved_count, response,
                    source_up, fetched, rejected, raised, conflict, after,
                    parse_call, collect_call, user_bookmarks, handler >>

\* the steps of the handler once the call of collect binds, with records
\* being soft-deleted meanwhile
NextSoftDelete ==
    \/ NextCallBinds
    \/ \E row \in store : SoftDelete(row)

SpecSoftDelete == InitCallBinds /\ [][NextSoftDelete]_vars

---------------------------------------------------------------------------
(* A parser called on its own: one raw item, classified, scored and        *)
(* normalized.                                                             *)

\* the phrases that each match one keyword list of _categorize_post only
ListPhrases == { "need", "hate", "glitch", "love", "how" }

\* the texts of the items parsed
ParseTexts ==
    SUBSET ListPhrases
      \cup { text \in SUBSET Phrases : Cardinality(text) <= MaxPhrases }

\* the lists of at most n elements of S
SeqsUpTo(S, n) == UNION { [ 1 .. k -> S ] : k \in 0 .. n }

\* an item every classifier gives a category
Classifiable == PlainItem(1, { "broken" })

\* the raw items parsed: every text with every list of labels; every
\* compound score; every engagement; every list of mentions, whose entries
\* the parser can read (mention.username) or cannot; a malformed item
ParseItems ==
    { [ PlainItem(1, text) EXCEPT !.labels = labels ] :
        text \in ParseTexts, labels \in SeqsUpTo(LabelNames, MaxLabels) }
    \cup { [ Classifiable EXCEPT !.compound = c ] : c \in -100 .. 100 }
    \cup { [ Classifiable EXCEPT !.score = n, !.upvote_ratio = u,
                                 !.num_comments = m ] :
             n \in (0 .. MaxCount) \cup { 100 }, u \in 0 .. 100,
             m \in (0 .. MaxCount) \cup { 10 } }
    \cup { [ Classifiable EXCEPT !.score = n, !.num_comments = m,
                                 !.retweet_count = rt, !.quote_count = q ] :
             n \in 0 .. MaxCount, m \in 0 .. MaxCount, rt \in 0 .. MaxCount,
             q \in 0 .. MaxCount }
    \cup { [ PlainItem(1, text) EXCEPT !.mentions = mentions,
                                       !.malformed = unreadable ] :
             text \in { { "broken" }, { "broken", "github" },
                        { "broken", "notion", "github" } },
             mentions \in SeqsUpTo(Usernames, MaxLabels),
             unreadable \in BOOLEAN }
    \cup { [ Classifiable EXCEPT !.malformed = TRUE ] }

InitParse ==
    /\ callsite = "as written"
    /\ InitRuns
    /\ twitter_bearer_token = "token"
    /\ collect_call = NoCollect
    /\ NoBookmarks
    /\ parse_call \in
          { [ source |-> p, item |-> it, stage |-> "fetched", data |-> NoData ] :
              p \in Supported, it \in ParseItems }

\* data = self._parse_submission(...) / _parse_issue(...) / _parse_tweet(...)
Parse ==
    /\ parse_call.stage = "fetched"
    /\ parse_call' = [ parse_call EXCEPT
                         !.stage = "parsed",
                         !.data = parse_item(parse_call.source, parse_call.item) ]
    /\ UNCHANGED coordinator_vars
    /\ UNCHANGED << collect_call, user_bookmarks, handler >>

SpecParse == InitParse /\ [][Parse]_vars

---------------------------------------------------------------------------
(* A collector's collect called on its own, with the parameters it         *)
(* declares.                                                               *)

\* the items of a batch: classifiable, without a category, malformed, and
\* the position where the source stops delivering
BatchItem(id, kind) ==
    CASE kind = "classifiable" -> PlainItem(id, { "broken" })
      [] kind = "no category" -> PlainItem(id, { "update dependency version" })
      [] kind = "malformed" ->
            [ PlainItem(id, { "broken" }) EXCEPT !.malformed = TRUE ]
      [] kind = "unavailable" ->
            [ PlainItem(id, { "broken" }) EXCEPT !.unavailable = TRUE ]

\* the batches: the item at position j is post, issue or tweet j
Batches ==
    { [ j \in DOMAIN kinds |-> BatchItem(j, kinds[j]) ] :
        kinds \in SeqsUpTo({ "classifiable", "no category", "malformed",
                             "unavailable" }, MaxBatch) }

\* the collectors called: only a TwitterCollector can be without a client
Collectors ==
    { who \in Supported \X { None, "client" } :
        who[1] = "twitter" \/ who[2] = "client" }

InitCollect ==
    /\ callsite = OwnParameters
    /\ InitRuns
    /\ twitter_bearer_token = "token"
    /\ parse_call = NoParse
    /\ NoBookmarks
    /\ collect_call \in
          { [ source |-> who[1], client |-> who[2], query |-> query,
              target |-> target, limit |-> limit, up |-> up, feed |-> feed,
              stage |-> "called", requests |-> << >>, returned |-> << >> ] :
              who \in Collectors,
              query \in { None, "q" }, target \in { None, "t" },
              limit \in MinLimit .. MaxLimit, up \in BOOLEAN,
              feed \in FeedsOf(Batches, MaxBatch) }

\* the fetches the collector of platform p asks for
requests_of(site, client, p, query, target, limit) ==
    CASE p = "reddit"  -> reddit_requests(query, target, limit)
      [] p = "github"  -> github_requests(query, target, limit)
      [] p = "twitter" ->
            twitter_requests(client, query, target,
                             Arg(site, p, "count", limit, DefaultCount))

\* results = await collector.collect(...)
Collect ==
    /\ collect_call.stage = "called"
    /\ LET c == collect_call IN
       collect_call' =
           [ c EXCEPT
               !.stage = "returned",
               !.requests = requests_of(callsite, c.client, c.source, c.query,
                                        c.target, c.limit),
               !.returned = collect(callsite, c.client, c.source, c.query,
                                    c.target, c.limit, c.up, c.feed) ]
    /\ UNCHANGED coordinator_vars
    /\ UNCHANGED << parse_call, user_bookmarks, handler >>

SpecCollect == InitCollect /\ [][Collect]_vars

---------------------------------------------------------------------------
(* Properties *)

\* the rows run r inserted
RowsOf(r) == { row \in store : row.id[1] = r }

\* the source_urls of a list of records
Urls(records) == { records[k].source_url : k \in DOMAIN records }

\* no source_url occurs twice in the list
Distinct(records) ==
    \A j, k \in DOMAIN records :
        records[j].source_url = records[k].source_url => j = k

\* run r passed the platform and configuration checks of lines 44-62
Admitted(r) ==
    /\ platform[r] \in Supported
    /\ platform[r] = "twitter" => twitter_bearer_token # ""

\* C1: a run for reddit, github or configured twitter whose collector yields
\* k records with pairwise distinct source_urls, none of them in the store,
\* ends with success = true and collected_count = k, and has added exactly
\* those k records to the store.
C1_RunSavesCollected ==
    \A r \in Runs :
        ( /\ pc[r] = "done"
          /\ Admitted(r)
          /\ raised[r] # "OperationalError"
          /\ Distinct(collected_data[r])
          /\ \A row \in store \ RowsOf(r) :
                row.source_url \notin Urls(collected_data[r]) )
        => /\ response[r] = CollectResponse(Len(collected_data[r]))
           /\ { row.source_url : row \in RowsOf(r) } = Urls(collected_data[r])
           /\ Cardinality(RowsOf(r)) = Len(collected_data[r])

C6_OnlyCategorized ==
    /\ \A r \in Runs : \A k \in DOMAIN collected_data[r] :
          LET data == collected_data[r][k] IN
          /\ data.category \in Taxonomy
          /\ data.platform = "github"
                => data.category \in { "feature-request", "bug-report" }
    /\ \A row \in store :
          /\ row.category \in Taxonomy
          /\ row.platform = "github"
                => row.category \in { "feature-request", "bug-report" }

\* a run that fetched an item without a category and persisted another item
C6_RejectedAndSaved ==
    \E r \in Runs : pc[r] = "done" /\ rejected[r] > 0 /\ RowsOf(r) # {}

\* C7: the tags of every record any of the three collectors returns contain
\* the record's category.
C7_TagsContainCategory ==
    \A r \in Runs : \A k \in DOMAIN collected_data[r] :
        BagIn(collected_data[r][k].category, collected_data[r][k].tags)

\* a GitHub run and a Twitter run that each got records from their collector
C7_RecordsReturned ==
    \E r1, r2 \in Runs :
        /\ platform[r1] = "github" /\ collected_data[r1] # << >>
        /\ platform[r2] = "twitter" /\ collected_data[r2] # << >>

\* C8: a Twitter run ends with the "not configured" answer exactly when no
\* bearer token is set (so no run that invoked the collector, with or without
\* results, ends with it), and then it has reached no network call and
\* inserted nothing.
C8_NotConfiguredIsDistinct ==
    \A r \in Runs :
        (pc[r] = "done" /\ platform[r] = "twitter")
        => /\ twitter_bearer_token = ""
                <=> response[r] = HTTPException(400, "twitter not configured")
           /\ twitter_bearer_token = ""
                => ~fetched[r] /\ collected_data[r] = << >> /\ RowsOf(r) = {}

\* a Twitter run without a bearer token has ended
C8_NotConfiguredRun ==
    \E r \in Runs :
        /\ pc[r] = "done" /\ platform[r] = "twitter"
        /\ twitter_bearer_token = ""
        /\ response[r].status = 400

\* C9: a run whose source platform is unavailable gets an empty list from
\* its collector and ends with success, reporting zero saved.
C9_UnavailableSourceSucceeds ==
    \A r \in Runs :
        ( /\ pc[r] = "done"
          /\ Admitted(r)
          /\ ~source_up[r]
          /\ raised[r] # "OperationalError" )
        => /\ collected_data[r] = << >>
           /\ response[r] = CollectResponse(0)

\* C10: a run in which a store operation raised (a lookup or the commit)
\* has none of its records in the store, and it ends with HTTP 500.
C10_FailedRunPersistsNothing ==
    \A r \in Runs :
        raised[r] # None
        => /\ RowsOf(r) = {}
           /\ pc[r] = "done"
                => response[r] = HTTPException(500, "collection failed")

\* a run that had added records when the store failed has ended
C10_FailedAfterAdding ==
    \E r \in Runs :
        /\ pc[r] = "done"
        /\ raised[r] = "OperationalError"
        /\ saved_count[r] > 0

---------------------------------------------------------------------------
(* Properties of a collector called on its own *)

\* what the fetches c.requests bring, parsed and concatenated in order
\* (out[k]: the list after the first k fetches)
Fetched(c) ==
    LET out[k \in 0 .. Len(c.requests)] ==
            IF k = 0 THEN << >>
            ELSE out[k - 1] \o
                 collect_listing(c.source, c.up, c.feed[c.requests[k].source],
                                 c.requests[k].limit)
    IN out[Len(c.requests)]

\* the one fetch of an explicit target, when one is set
TargetFirst(c) ==
    c.target # None
        => Len(c.requests) = 1 /\ c.requests[1].mode = "target"

\* the one fetch of an explicit query, when no target is set
QuerySecond(c) ==
    (c.target = None /\ c.query # None)
        => Len(c.requests) = 1 /\ c.requests[1].mode = "query"

\* the sweep over the first 5 curated sources, limit divided by 5 for each
SweepLast(c) ==
    (c.target = None /\ c.query = None)
        => /\ Len(c.requests) = SweepSources
           /\ \A k \in 1 .. SweepSources :
                 c.requests[k] = [ mode |-> "sweep", source |-> k,
                                   limit |-> c.limit \div SweepSources ]

\* C11 (as the code has it): the Reddit and GitHub collectors fetch by
\* exactly one mode: the explicit target when one is set, even with a query;
\* otherwise the explicit query; otherwise a sweep over the first 5 curated
\* sources with limit divided by 5 for each.  The Twitter collector fetches
\* the explicit user when one is set, otherwise the explicit query, and with
\* neither it fetches nothing and returns an empty list.  What a collector
\* returns is what those fetches bring.
C11_FetchModePrecedence ==
    collect_call.stage = "returned"
    => LET c == collect_call IN
       /\ c.returned = Fetched(c)
       /\ c.source \in { "reddit", "github" }
             => /\ TargetFirst(c) /\ QuerySecond(c) /\ SweepLast(c)
                /\ c.target # None \/ c.query # None
                      => c.requests[1].limit = c.limit
       /\ (c.source = "twitter" /\ c.client # None)
             => /\ TargetFirst(c) /\ QuerySecond(c)
                /\ (c.target = None /\ c.query = None)
                      => c.requests = << >> /\ c.returned = << >>
       /\ (c.source = "twitter" /\ c.client = None) => c.requests = << >>

\* a collector was called with a target and a query and returned records
C11_TargetAndQuery ==
    /\ collect_call.stage = "returned"
    /\ collect_call.target # None /\ collect_call.query # None
    /\ collect_call.returned # << >>

\* C11 (as stated): each of the three collectors fetches by exactly one
\* mode: explicit target, otherwise explicit query, otherwise the default
\* sweep over the first 5 curated sources with limit divided by 5 for each.
C11_ThreeModesEachCollector ==
    (collect_call.stage = "returned" /\ collect_call.client # None)
    => /\ TargetFirst(collect_call)
       /\ QuerySecond(collect_call)
       /\ SweepLast(collect_call)

\* the items the k-th fetch of call c read
Read(c, k) == Served(Take(c.feed[c.requests[k].source], c.requests[k].limit))

\* the classifier of the platform gives the item a category it keeps
Classified(source, item) ==
    parse_item(source, [ item EXCEPT !.malformed = FALSE ]) # NoData

\* C12: an item whose parse fails is skipped and does not abort the batch:
\* of the items a collector fetched, the returned list holds exactly the
\* well-formed classifiable ones, those before and those after a malformed
\* item alike.
C12_ParseFailureSkipsItem ==
    (collect_call.stage = "returned" /\ collect_call.up)
    => LET c == collect_call IN
       \A k \in DOMAIN c.requests : \A j \in DOMAIN Read(c, k) :
           url_of(c.source, Read(c, k)[j].id) \in Urls(c.returned)
              <=> /\ ~Read(c, k)[j].malformed
                  /\ Classified(c.source, Read(c, k)[j])

\* a batch with a malformed item between two classifiable items was fetched
\* and both of these were returned
C12_SkippedBetweenKept ==
    /\ collect_call.stage = "returned"
    /\ \E k \in DOMAIN collect_call.requests :
          LET read == Read(collect_call, k) IN
          /\ Len(read) = 3
          /\ read[2].malformed
          /\ ~read[1].malformed /\ ~read[3].malformed
          /\ Len(collect_call.returned) = 2

---------------------------------------------------------------------------
(* Properties of a parser called on its own *)

\* the parser was called on a well-formed item of platform p
Parsed(p) ==
    /\ parse_call.stage = "parsed"
    /\ parse_call.source = p
    /\ ~parse_call.item.malformed

\* the category of the record the parser returned, None without a record
ParsedCategory ==
    IF parse_call.data = NoData THEN None ELSE parse_call.data[1].category

\* a label whose lowercased name contains "enhancement", "feature" or "request"
FeatureLabel(label) ==
    \E kw \in { "enhancement", "feature", "request" } : In(kw, Lower(label))

\* a label whose lowercased name contains "bug", "error" or "crash"
BugLabel(label) ==
    \E kw \in { "bug", "error", "crash" } : In(kw, Lower(label))

\* C13: GitHub classification looks at the labels before the text.  An
\* issue with a bug label and no feature label is a bug-report whatever its
\* text; when some label matches, the first matching label decides; the
\* keyword match on title and body is used only when no label matches, and
\* gives feature-request, bug-report or no record.
C13_LabelsBeforeText ==
    Parsed("github")
    => LET labels == parse_call.item.labels
           text == parse_call.item.text
           matching == { k \in DOMAIN labels :
                           FeatureLabel(labels[k]) \/ BugLabel(labels[k]) }
           first == CHOOSE k \in matching : \A k2 \in matching : k <= k2
       IN
       /\ ( /\ \E k \in DOMAIN labels : BugLabel(labels[k])
            /\ \A k \in DOMAIN labels : ~FeatureLabel(labels[k]) )
             => ParsedCategory = "bug-report"
       /\ matching # {}
             => ParsedCategory = IF FeatureLabel(labels[first])
                                 THEN "feature-request" ELSE "bug-report"
       /\ matching = {}
             => ParsedCategory =
                  IF AnyIn(github_feature_keywords, text) THEN "feature-request"
                  ELSE IF AnyIn(github_bug_keywords, text) THEN "bug-report"
                  ELSE None
       /\ ParsedCategory \in { "feature-request", "bug-report", None }

\* an issue labelled "bug" whose text holds a feature keyword was parsed,
\* as a bug-report
C13_BugLabelFeatureText ==
    /\ Parsed("github")
    /\ parse_call.item.labels = << "bug" >>
    /\ AnyIn(github_feature_keywords, parse_call.item.text)
    /\ ParsedCategory = "bug-report"

\* the category of the earliest keyword list that matches the text: lists
\* and categories in the order tested, None when no list matches
FirstMatch(lists, categories, text) ==
    LET hits == { k \in DOMAIN lists : AnyIn(lists[k], text) } IN
    IF hits = {} THEN None
    ELSE categories[CHOOSE k \in hits : \A k2 \in hits : k <= k2]

\* C14: Reddit classification is first-match-wins in the order request ->
\* feature-request, complaint -> complaint, bug -> bug-report, praise ->
\* praise, discussion -> discussion: whichever lists match the lowercased
\* title and content, the category is that of the earliest matching list,
\* and there is no record when no list matches.
C14_RedditFirstMatch ==
    Parsed("reddit")
    => ParsedCategory =
         FirstMatch(<< reddit_request_keywords, reddit_complaint_keywords,
                       reddit_bug_keywords, reddit_praise_keywords,
                       reddit_discussion_keywords >>,
                    << "feature-request", "complaint", "bug-report", "praise",
                       "discussion" >>,
                    parse_call.item.text)

\* a post matching every list but the request keywords was parsed, as a
\* complaint
C14_AllButRequest ==
    /\ Parsed("reddit")
    /\ ~AnyIn(reddit_request_keywords, parse_call.item.text)
    /\ AnyIn(reddit_complaint_keywords, parse_call.item.text)
    /\ AnyIn(reddit_bug_keywords, parse_call.item.text)
    /\ AnyIn(reddit_praise_keywords, parse_call.item.text)
    /\ AnyIn(reddit_discussion_keywords, parse_call.item.text)
    /\ ParsedCategory = "complaint"

\* C15: Twitter classification is first-match-wins in the order request ->
\* feature-request, complaint -> complaint, discussion -> discussion, and no
\* record otherwise; no tweet is classified bug-report or praise.
C15_TwitterFirstMatch ==
    Parsed("twitter")
    => /\ ParsedCategory =
            FirstMatch(<< twitter_request_keywords, twitter_complaint_keywords,
                          twitter_discussion_keywords >>,
                       << "feature-request", "complaint", "discussion" >>,
                       parse_call.item.text)
       /\ ParsedCategory \notin { "bug-report", "praise" }

\* a tweet with words Reddit takes for a bug report and for praise was
\* parsed, and it got no record
C15_BugAndPraiseWords ==
    /\ Parsed("twitter")
    /\ AnyIn(reddit_bug_keywords, parse_call.item.text)
    /\ AnyIn(reddit_praise_keywords, parse_call.item.text)
    /\ ParsedCategory = None

\* C16: for every compound score c in [-1, 1] (in hundredths), the
\* sentiment scorer of every collector gives (positive, c) iff c >= 0.05,
\* (negative, |c|) iff c <= -0.05 and (neutral, 0.5) otherwise; it gives a
\* value for every c, 0 included.
C16_SentimentThresholds ==
    (parse_call.stage = "parsed" /\ parse_call.data # NoData)
    => LET c == parse_call.item.compound
           sentiment == parse_call.data[1].sentiment
           sentiment_score == parse_call.data[1].sentiment_score
       IN
       /\ sentiment \in { "positive", "negative", "neutral" }
       /\ (sentiment = "positive" /\ sentiment_score = c) <=> c >= 5
       /\ (sentiment = "negative" /\ sentiment_score = -c) <=> c <= -5
       /\ (sentiment = "neutral" /\ sentiment_score = 50) <=> (-5 < c /\ c < 5)

\* an item with compound score -0.05 was scored, as negative with 0.05
C16_NegativeAtThreshold ==
    /\ parse_call.stage = "parsed"
    /\ parse_call.data # NoData
    /\ parse_call.item.compound = -5
    /\ parse_call.data[1].sentiment = "negative"
    /\ parse_call.data[1].sentiment_score = 5

\* C17: the interaction_score of every record a collector produces from
\* non-negative engagement counters (and, for Reddit, an upvote_ratio in
\* [0, 1]) is an integer >= 0.
C17_InteractionScoreNonNegative ==
    (parse_call.stage = "parsed" /\ parse_call.data # NoData)
    => LET item == parse_call.item IN
       (/\ item.score >= 0 /\ item.num_comments >= 0
        /\ item.retweet_count >= 0 /\ item.quote_count >= 0
        /\ item.upvote_ratio \in 0 .. 100)
       => parse_call.data[1].interaction_score \in Nat

\* a submission most voters voted down was scored, with comments
C17_VotedDownScored ==
    /\ Parsed("reddit")
    /\ parse_call.data # NoData
    /\ parse_call.item.upvote_ratio < 50
    /\ parse_call.item.score > 0
    /\ parse_call.item.num_comments > 0
    /\ parse_call.data[1].interaction_score > 0

\* C18: the interaction_score stored for a Reddit submission with a
\* non-negative score and comment count and an upvote_ratio in [0, 1] (in
\* hundredths) equals round(upvote_ratio * score) + num_comments * 2, where
\* round is rounding to the nearest integer, a half to the even one.
C18_RedditScoreRounded ==
    (Parsed("reddit") /\ parse_call.data # NoData)
    => LET item == parse_call.item
           product == item.upvote_ratio * item.score
           whole == product \div 100
           rest == product % 100
           round == IF rest < 50 THEN whole
                    ELSE IF rest > 50 THEN whole + 1
                    ELSE IF whole % 2 = 0 THEN whole ELSE whole + 1
       IN parse_call.data[1].interaction_score = round + item.num_comments * 2

\* C19: the tags of every record a collector returns form a set: no tag
\* occurs more than once, whatever the category, the tag keywords matched
\* and (for GitHub) the issue's labels, themselves distinct.
C19_TagsFormSet ==
    (/\ parse_call.stage = "parsed"
     /\ parse_call.data # NoData
     /\ \A i, j \in DOMAIN parse_call.item.labels :
            parse_call.item.labels[i] = parse_call.item.labels[j] => i = j)
    => \A tag \in BagToSet(parse_call.data[1].tags) :
           CopiesIn(tag, parse_call.data[1].tags) = 1

\* C20: the product_mentioned of every Reddit and Twitter record is
\* deduplicated: no entry occurs more than once, whatever the text and (for
\* Twitter) the list of @-mentions, a tweet that mentions the same product
\* account more than once included.
C20_ProductsDeduplicated ==
    ((Parsed("reddit") \/ Parsed("twitter")) /\ parse_call.data # NoData)
    => \A product \in BagToSet(parse_call.data[1].product_mentioned) :
           CopiesIn(product, parse_call.data[1].product_mentioned) = 1

---------------------------------------------------------------------------
(* Further properties of the coordinator *)

\* C21: a collection run never modifies or removes a record that is already
\* in the store: every record of the store is in the store, with all its
\* fields, after every step of every run, whether or not the collector
\* returned a record with its source_url.
C21_StoredRecordsUntouched ==
    [][\A row \in store : row \in store']_vars

\* a run has ended with success whose collector returned the source_url of
\* a record that an earlier run had stored
C21_ReturnedStoredUrl ==
    \E r1, r2 \in Runs :
        /\ r1 \in after[r2]
        /\ pc[r2] = "done"
        /\ response[r2].status = 200
        /\ \E row \in RowsOf(r1) : row.source_url \in Urls(collected_data[r2])

---------------------------------------------------------------------------
(* Further properties of a collector called on its own *)

\* the call swept the curated sources: a Reddit or GitHub collector called
\* with neither a target nor a query
Swept(c) ==
    /\ c.stage = "returned"
    /\ c.source \in { "reddit", "github" }
    /\ c.target = None /\ c.query = None

\* what source k was asked for in a sweep
Asked(c, k) == Take(c.feed[k], c.limit \div SweepSources)

\* the fetch of source k failed before it delivered anything
FailedBatch(c, k) == Asked(c, k) # << >> /\ Asked(c, k)[1].unavailable

\* no part of the fetch of source k failed
Delivered(c, k) == \A j \in DOMAIN Asked(c, k) : ~Asked(c, k)[j].unavailable

C27_LabelOrderIrrelevant ==
    Parsed("github")
    => \A permuted \in SeqsUpTo(LabelNames, MaxLabels) :
          SeqToBag(permuted) = SeqToBag(parse_call.item.labels)
          => categorize_issue(parse_call.item.text, permuted) = ParsedCategory

\* C28: a collection request whose platform is not reddit, github or twitter
\* (the schema admits "all") is rejected with a 400 error before any
\* collector is invoked: no network call, no list collected, no exception
\* caught, and nothing added to the session or the store.
C28_UnsupportedPlatformRejected ==
    \A r \in Runs :
        (platform[r] # None /\ platform[r] \notin Supported)
        => /\ pc[r] = "done"
           /\ response[r] = HTTPException(400, "unsupported platform")
           /\ ~fetched[r]
           /\ collected_data[r] = << >>
           /\ raised[r] = None
           /\ pending[r] = << >> /\ saved_count[r] = 0
           /\ RowsOf(r) = {}

\* a request for platform "all" has been answered while another run's
\* records are in the store
C28_AllRejected ==
    \E r1, r2 \in Runs :
        /\ pc[r1] = "done" /\ platform[r1] = "all"
        /\ response[r1].status = 400
        /\ RowsOf(r2) # {}

\* the soft-deleted records that hold the source_url run r is looking up
SoftDeletedMatch(r) ==
    { row \in store :
        /\ row.is_deleted
        /\ row.source_url = collected_data[r][idx[r]].source_url }

\* C26: a soft-deleted record still counts as present for dedup: a run whose
\* lookup of a returned source_url meets a soft-deleted record with it puts
\* no record for that source_url in its session, so that its commit inserts
\* none and the number of records with that source_url stays 1; the item is
\* not counted as saved.
C26_SoftDeletedStillDedups ==
    [][\A r \in Runs :
          (pc[r] = "lookup" /\ SoftDeletedMatch(r) # {})
          => /\ pending'[r] = pending[r]
             /\ saved_count'[r] = saved_count[r]
             /\ store' \ store = {}
                  \/ \A row \in store' \ store : row.id[1] # r]_vars

\* a run that began after another had ended has itself ended with success
\* and nothing saved: the one source_url its collector returned is held by
\* exactly one record, of the earlier run, which is soft-deleted
C26_RerunOverSoftDeleted ==
    \E r1, r2 \in Runs :
        /\ r1 \in after[r2]
        /\ pc[r2] = "done"
        /\ response[r2] = CollectResponse(0)
        /\ Len(collected_data[r2]) = 1
        /\ \E row \in RowsOf(r1) :
              /\ row.is_deleted
              /\ existing(collected_data[r2][1].source_url) = { row }
---------------------------------------------------------------------------
(* The bookmark handlers of api/bookmarks.py, one request per handler, each *)
(* with its own session.  A step runs from one awaited database call to    *)
(* the next.  Of the custom fields of a bookmark the model keeps            *)
(* custom_notes; custom_tags and custom_category are written by the same   *)
(* statements.                                                             *)

\* str(current_user.id) of the authenticated users
Users == { "u1", "u2" }

\* the demands in the store: rows 1 and 2 of an earlier collection run
StoredDemands ==
    { Demand(0, k, parse_submission(PlainItem(k, { "broken" }))[1]) : k \in 1 .. 2 }

\* the demand ids a request can name; << 0, 3 >> is no demand
DemandIds == { << 0, k >> : k \in 1 .. 3 }

\* Bookmark(user_id=..., demand_id=..., custom_notes=...) with its uuid4 key
Bookmark(id, user, demand, custom_notes) ==
    [ id |-> id, user_id |-> user, demand_id |-> demand,
      custom_notes |-> custom_notes ]

\* bookmarks of earlier requests: one of each user, on the same demand
EarlierBookmarks ==
    { Bookmark(<< 0, 1 >>, "u1", << 0, 1 >>, None),
      Bookmark(<< 0, 2 >>, "u2", << 0, 1 >>, None) }

\* the bookmark ids a request can name: an earlier bookmark's, or the one
\* that request q gives the bookmark it creates
BookmarkIds == { << 0, 1 >>, << 0, 2 >> } \cup { << q, 1 >> : q \in Requests }

InitBookmarks ==
    /\ callsite = "per collector"
    /\ twitter_bearer_token = "token"
    /\ store = StoredDemands
    /\ pc = [ r \in Runs |-> "idle" ]
    /\ platform = [ r \in Runs |-> None ]
    /\ collected_data = [ r \in Runs |-> << >> ]
    /\ idx = [ r \in Runs |-> 1 ]
    /\ pending = [ r \in Runs |-> << >> ]
    /\ saved_count = [ r \in Runs |-> 0 ]
    /\ response = [ r \in Runs |-> NoResponse ]
    /\ source_up = [ r \in Runs |-> TRUE ]
    /\ fetched = [ r \in Runs |-> FALSE ]
    /\ rejected = [ r \in Runs |-> 0 ]
    /\ raised = [ r \in Runs |-> None ]
    /\ conflict = [ r \in Runs |-> {} ]
    /\ after = [ r \in Runs |-> {} ]
    /\ parse_call = NoParse
    /\ collect_call = NoCollect
    /\ user_bookmarks \in SUBSET EarlierBookmarks
    /\ handler = [ q \in Requests |-> NoHandler ]

\* the request arrives: its arguments, and the table as it finds it
Arrived(op, user, bookmark_id, demand_id, notes) ==
    [ NoHandler EXCEPT !.op = op, !.user = user, !.bookmark_id = bookmark_id,
                       !.demand_id = demand_id, !.notes = notes,
                       !.before = user_bookmarks ]

\* raise HTTPException(status_code, ...), or an exception nothing catches
\* (HTTP 500): no body
Raises(h, status, exception) ==
    [ h EXCEPT !.pc = "done", !.status = status, !.body = None,
               !.raised = exception ]

\* select(Bookmark).where(and_(Bookmark.id == bookmark_id,
\*                             Bookmark.user_id == str(current_user.id)))
own_bookmark(bookmark_id, user) ==
    { row \in user_bookmarks : row.id = bookmark_id /\ row.user_id = user }

\* create_bookmark, lines 32-41: the demand is looked up
CreateSelectDemand(q) ==
    /\ handler[q].pc = "idle"
    /\ \E user \in Users, demand_id \in DemandIds :
          LET h == Arrived("create", user, << q, 1 >>, demand_id, "note") IN
          handler' = [ handler EXCEPT ![q] =
              IF \E demand \in store : demand.id = demand_id
              THEN [ h EXCEPT !.pc = "existing" ]
              ELSE Raises(h, 404, "HTTPException") ]
    /\ UNCHANGED << coordinator_vars, parse_call, collect_call, user_bookmarks >>

\* create_bookmark, lines 43-67: the bookmark of this user on this demand is
\* looked up; without one, a new Bookmark is added to the session
CreateSelectExisting(q) ==
    /\ handler[q].pc = "existing"
    /\ LET h == handler[q]
           found == { row \in user_bookmarks :
                        row.user_id = h.user /\ row.demand_id = h.demand_id }
       IN handler' = [ handler EXCEPT ![q] =
              IF Cardinality(found) > 1
              THEN Raises(h, 500, "MultipleResultsFound")
              ELSE IF found # {} THEN Raises(h, 400, "HTTPException")
              ELSE [ h EXCEPT !.pc = "commit" ] ]
    /\ UNCHANGED << coordinator_vars, parse_call, collect_call, user_bookmarks >>

\* create_bookmark, line 68: the commit inserts the bookmark
CreateCommit(q) ==
    /\ handler[q].pc = "commit"
    /\ handler[q].op = "create"
    /\ LET h == handler[q] IN
       /\ user_bookmarks' = user_bookmarks \cup
              { Bookmark(h.bookmark_id, h.user, h.demand_id, h.notes) }
       /\ handler' = [ handler EXCEPT ![q] =
              [ h EXCEPT !.pc = "requery",
                         !.writes = @ \cup { h.bookmark_id } ] ]
    /\ UNCHANGED << coordinator_vars, parse_call, collect_call >>

\* lines 69-78 and 177-186: db.refresh of the bookmark, which raises when its
\* row is gone, then select(Bookmark).options(selectinload(Bookmark.demand)):
\* the Bookmark model has no attribute demand, and the expression raises
\* AttributeError; get_db rolls back a session that has nothing left to roll
\* back
Requery(q) ==
    /\ handler[q].pc = "requery"
    /\ LET h == handler[q] IN
       handler' = [ handler EXCEPT ![q] =
           Raises(h, 500,
                  IF \E row \in user_bookmarks : row.id = h.bookmark_id
                  THEN "AttributeError" ELSE "InvalidRequestError") ]
    /\ UNCHANGED << coordinator_vars, parse_call, collect_call, user_bookmarks >>

\* get_bookmark, lines 117-126: building the query reads Bookmark.demand and
\* raises AttributeError before the store is asked
GetBookmark(q) ==
    /\ handler[q].pc = "idle"
    /\ \E user \in Users, bookmark_id \in BookmarkIds :
          handler' = [ handler EXCEPT ![q] =
              Raises(Arrived("get", user, bookmark_id, << 0, 0 >>, None),
                     500, "AttributeError") ]
    /\ UNCHANGED << coordinator_vars, parse_call, collect_call, user_bookmarks >>

\* update_bookmark, lines 152-174: the user's bookmark is looked up and its
\* fields are assigned in the session
UpdateSelect(q) ==
    /\ handler[q].pc = "idle"
    /\ \E user \in Users, bookmark_id \in BookmarkIds, notes \in { None, "edited" } :
          LET h == Arrived("update", user, bookmark_id, << 0, 0 >>, notes) IN
          handler' = [ handler EXCEPT ![q] =
              IF own_bookmark(bookmark_id, user) = {}
              THEN Raises(h, 404, "HTTPException")
              ELSE [ h EXCEPT !.pc = "commit" ] ]
    /\ UNCHANGED << coordinator_vars, parse_call, collect_call, user_bookmarks >>

\* update_bookmark, line 176: the commit flushes the UPDATE of the fields
\* that were assigned; an UPDATE that matches no row raises StaleDataError
UpdateCommit(q) ==
    /\ handler[q].pc = "commit"
    /\ handler[q].op = "update"
    /\ LET h == handler[q]
           rows == { row \in user_bookmarks : row.id = h.bookmark_id }
       IN
       IF h.notes = None
       THEN /\ handler' = [ handler EXCEPT ![q] = [ h EXCEPT !.pc = "requery" ] ]
            /\ UNCHANGED user_bookmarks
       ELSE IF rows = {}
       THEN /\ handler' = [ handler EXCEPT ![q] =
                               Raises(h, 500, "StaleDataError") ]
            /\ UNCHANGED user_bookmarks
       ELSE /\ user_bookmarks' =
                   (user_bookmarks \ rows)
                     \cup { [ row EXCEPT !.custom_notes = h.notes ] : row \in rows }
            /\ handler' = [ handler EXCEPT ![q] =
                   [ h EXCEPT !.pc = "requery",
                              !.writes = @ \cup { h.bookmark_id } ] ]
    /\ UNCHANGED << coordinator_vars, parse_call, collect_call >>

\* delete_bookmark, lines 202-216: the user's bookmark is looked up
DeleteSelect(q) ==
    /\ handler[q].pc = "idle"
    /\ \E user \in Users, bookmark_id \in BookmarkIds :
          LET h == Arrived("delete", user, bookmark_id, << 0, 0 >>, None) IN
          handler' = [ handler EXCEPT ![q] =
              IF own_bookmark(bookmark_id, user) = {}
              THEN Raises(h, 404, "HTTPException")
              ELSE [ h EXCEPT !.pc = "commit" ] ]
    /\ UNCHANGED << coordinator_vars, parse_call, collect_call, user_bookmarks >>

\* delete_bookmark, lines 218-224: the commit flushes the DELETE (of a row
\* that is gone, too: a DELETE that matches no row only warns) and the
\* handler answers MessageResponse(success=True)
DeleteCommit(q) ==
    /\ handler[q].pc = "commit"
    /\ handler[q].op = "delete"
    /\ LET h == handler[q]
           rows == { row \in user_bookmarks : row.id = h.bookmark_id }
       IN
       /\ user_bookmarks' = user_bookmarks \ rows
       /\ handler' = [ handler EXCEPT ![q] =
              [ h EXCEPT !.pc = "done", !.status = 200, !.body = "deleted",
                         !.writes = IF rows = {} THEN @
                                    ELSE @ \cup { h.bookmark_id } ] ]
    /\ UNCHANGED << coordinator_vars, parse_call, collect_call >>

\* lines 68, 176, 219: the commit fails; the transaction leaves nothing
\* behind and get_db rolls back
BookmarkCommitFails(q) ==
    /\ handler[q].pc = "commit"
    /\ handler' = [ handler EXCEPT ![q] =
                      Raises(handler[q], 500, "OperationalError") ]
    /\ UNCHANGED << coordinator_vars, parse_call, collect_call, user_bookmarks >>

NextBookmarks ==
    \E q \in Requests :
        \/ CreateSelectDemand(q)
        \/ CreateSelectExisting(q)
        \/ CreateCommit(q)
        \/ GetBookmark(q)
        \/ UpdateSelect(q)
        \/ UpdateCommit(q)
        \/ DeleteSelect(q)
        \/ DeleteCommit(q)
        \/ Requery(q)
        \/ BookmarkCommitFails(q)

SpecBookmarks == InitBookmarks /\ [][NextBookmarks]_vars

---------------------------------------------------------------------------
(* Properties of the bookmark handlers *)

\* request q ended, and it had named a bookmark that another user owned
\* when it arrived
NamedForeign(q) ==
    /\ handler[q].pc = "done"
    /\ \E row \in handler[q].before :
          row.id = handler[q].bookmark_id /\ row.user_id # handler[q].user

\* the bookmarks user has on demand_id
BookmarksOn(user, demand_id) ==
    { row \in user_bookmarks : row.user_id = user /\ row.demand_id = demand_id }

\* C23: the bookmark read, update and delete operations addressed by
\* bookmark_id act only on bookmarks the authenticated user owns: for a
\* bookmark of another user the operation answers 404, returns none of its
\* data and leaves every bookmark unchanged.
C23_ForeignBookmarkNotFound ==
    \A q \in Requests :
        (NamedForeign(q) /\ handler[q].op \in { "get", "update", "delete" })
        => /\ handler[q].status = 404
           /\ handler[q].body = None
           /\ handler[q].writes = {}

\* C24: after any sequence and interleaving of create_bookmark and
\* delete_bookmark requests a user has at most one bookmark per demand, and
\* a create for a (user, demand) pair that is bookmarked, with no delete
\* under way, is rejected with 400 and adds nothing.
C24_OneBookmarkPerDemand ==
    /\ \A user \in Users, demand_id \in DemandIds :
          Cardinality(BookmarksOn(user, demand_id)) <= 1
    /\ \A q \in Requests :
          ( /\ handler[q].pc = "done"
            /\ handler[q].op = "create"
            /\ \E row \in handler[q].before :
                  /\ row.user_id = handler[q].user
                  /\ row.demand_id = handler[q].demand_id
            /\ \A q2 \in Requests : handler[q2].op \in { None, "create" } )
          => handler[q].status = 400 /\ handler[q].writes = {}

\* C25: bookmark writes are all-or-nothing with respect to the reported
\* outcome: a create_bookmark or update_bookmark request that ends in an
\* error response has created and modified no bookmark.
C25_FailedWriteChangesNothing ==
    \A q \in Requests :
        ( /\ handler[q].pc = "done"
          /\ handler[q].op \in { "create", "update" }
          /\ handler[q].status >= 400 )
        => handler[q].writes = {}

---------------------------------------------------------------------------
(* Further properties of a collector called on its own: the limit *)

\* the number of items the fetches of call c asked for, all together
\* (total[k]: of the first k fetches)
RequestedTotal(c) ==
    LET total[k \in 0 .. Len(c.requests)] ==
            IF k = 0 THEN 0 ELSE total[k - 1] + c.requests[k].limit
    IN total[Len(c.requests)]

\* C29: for every collector, fetch mode and limit >= 1 (count, for Twitter),
\* the list collect returns has at most limit records; in sweep mode the
\* five per-source requests of limit // 5 items ask for at most limit items
\* together and return no more than they ask for.
C29_AtMostLimitRecords ==
    collect_call.stage = "returned"
    => /\ collect_call.limit >= MinLimit
       /\ Len(collect_call.returned) <= collect_call.limit
       /\ Len(collect_call.returned) <= RequestedTotal(collect_call)
       /\ Swept(collect_call)
             => /\ Len(collect_call.requests) = SweepSources
                /\ RequestedTotal(collect_call) <= collect_call.limit

\* a collector returned limit records of a listing that holds more
C29_ListingCut ==
    /\ collect_call.stage = "returned"
    /\ Len(collect_call.requests) = 1
    /\ Len(Served(collect_call.feed[1])) > collect_call.limit
    /\ Len(collect_call.returned) = collect_call.limit
====
